---- MODULE Spec2Model ----
(***************************************************************************)
(* Model of src/lib/tree-summary.ts (speedscope): the text summary of a    *)
(* weighted call tree.                                                     *)
(*                                                                         *)
(* Representation choices                                                  *)
(*  - Call-tree nodes are the integers 1..MaxNodes.  A node whose frame is *)
(*    RootFrame is a synthetic root (CallTreeNode.isRoot()); every root is *)
(*    the grouped call-tree root of one profile, so the node universe is a *)
(*    forest with one tree per profile.                                    *)
(*  - Weights are naturals.  A threshold (minWeight, minSelfWeight) is the *)
(*    product of a weight and MIN_WEIGHT_THRESHOLD = 0.01; it is kept in   *)
(*    hundredths, i.e. the threshold x * 0.01 is the integer x, and        *)
(*    "w >= threshold" is "w * ThresholdScale >= x".                       *)
(*  - A string built from the box-drawing pieces is a sequence of glyphs;  *)
(*    the glyphs are written in ASCII (see Corner, Tee, Bar, Blank).       *)
(*  - A percentage (w / totalWeight) * 100 is carried as the pair of its   *)
(*    weight and its denominator; formatValue and formatPercent are the    *)
(*    caller's, a row of the output keeps their arguments.                 *)
(*  - The output (string[] joined by "\n") is the sequence of its rows.    *)
(***************************************************************************)
EXTENDS Integers, Sequences, FiniteSets, TLC

\* ------------------------------------------------------------------ bounds
MaxNodes == 5
NumFrames == 2
MaxProfiles == 2

\* ------------------------------------------------------- program constants
\* MIN_WEIGHT_THRESHOLD = 0.01, as the denominator 1/100
ThresholdScale == 100
\* '='.repeat(60), '-'.repeat(60)
RuleWidth == 60

Nodes == 1..MaxNodes
NoNode == 0
RootFrame == 0
Frames == 1..NumFrames
\* the self weights a sample stack can leave on a node: none, one unit, or
\* a hundred units (of which one unit is exactly 1%)
SelfWeights == {0, 1, ThresholdScale}

VARIABLES
  nodeFrame,      \* CallTreeNode.frame
  nodeParent,     \* CallTreeNode.parent (NoNode: null)
  nodeChildren,   \* CallTreeNode.children, in insertion order
  nodeTotal,      \* CallTreeNode.getTotalWeight()
  nodeSelf,       \* CallTreeNode.getSelfWeight()
  request,        \* the exported function to call and its arguments
  calls,          \* how many times it has been called (2: at least twice)
  output,         \* the rows the last call returned
  prevOutput,     \* the rows the call before it returned (calls = 2)
  sections        \* per report section: the intermediate lists of the last call

vars == <<nodeFrame, nodeParent, nodeChildren, nodeTotal, nodeSelf, request, calls,
          output, prevOutput, sections>>

model == <<nodeFrame, nodeParent, nodeChildren, nodeTotal, nodeSelf>>

\* ------------------------------------------------------------ sequences
RECURSIVE SeqSum(_)
SeqSum(s) == IF s = <<>> THEN 0 ELSE Head(s) + SeqSum(Tail(s))

RECURSIVE SetSum(_, _)
SetSum(S, f) ==
  IF S = {} THEN 0
  ELSE LET x == CHOOSE y \in S : TRUE IN f[x] + SetSum(S \ {x}, f)

Range(s) == {s[i] : i \in DOMAIN s}

RECURSIVE Concat(_)
Concat(ss) == IF ss = <<>> THEN <<>> ELSE Head(ss) \o Concat(Tail(ss))

\* ----------------------------------------------------- the call-tree model
IsRoot(n) == nodeFrame[n] = RootFrame


\* faulty variant: the root is processed like any other node
SkipNode_Never(n) == FALSE

\* The root is skipped by both walks (buildTreeLines, walkSubtree).
SkipNode(n) == IsRoot(n)

\* child.getTotalWeight() >= minWeight, minWeight in hundredths
AtLeast(weight, threshold) == weight * ThresholdScale >= threshold

\* Array.prototype.sort((a, b) => key[b] - key[a]): descending, and stable
\* (equal keys keep the order they had)
RECURSIVE InsertDesc(_, _, _)
InsertDesc(x, sorted, key) ==
  IF sorted = <<>> THEN <<x>>
  ELSE IF key[Head(sorted)] >= key[x]
       THEN <<Head(sorted)>> \o InsertDesc(x, Tail(sorted), key)
       ELSE <<x>> \o sorted

RECURSIVE SortDesc(_, _)
SortDesc(s, key) ==
  IF s = <<>> THEN <<>>
  ELSE InsertDesc(s[Len(s)], SortDesc(SubSeq(s, 1, Len(s) - 1), key), key)

\* faulty variant: the children are filtered and left in insertion order
VisibleChildren_Unsorted(node, minWeight) ==
  SelectSeq(nodeChildren[node], LAMBDA c : AtLeast(nodeTotal[c], minWeight))

\* faulty variant: the filter keeps the children at or below the threshold
VisibleChildren_Inverted(node, minWeight) ==
  SortDesc(SelectSeq(nodeChildren[node],
                     LAMBDA c : nodeTotal[c] * ThresholdScale <= minWeight),
           nodeTotal)

\* [...node.children].filter(total >= minWeight).sort(by total, descending)
VisibleChildren(node, minWeight) ==
  SortDesc(SelectSeq(nodeChildren[node], LAMBDA c : AtLeast(nodeTotal[c], minWeight)),
           nodeTotal)

\* the box-drawing pieces, each three characters wide
Corner == "+- "
Tee == "|- "
Bar == "|  "
Blank == "   "

Connector(isLast, isRoot) ==
  IF isRoot THEN <<>> ELSE IF isLast THEN <<Corner>> ELSE <<Tee>>

\* faulty variant: the continuation bar under the last child, blanks under the others
ChildPrefix_Swapped(prefix, isLast, isRoot) ==
  prefix \o (IF isRoot THEN <<>> ELSE IF isLast THEN <<Bar>> ELSE <<Blank>>)

ChildPrefix(prefix, isLast, isRoot) ==
  prefix \o (IF isRoot THEN <<>> ELSE IF isLast THEN <<Blank>> ELSE <<Bar>>)

\* A TreeLine.  name stands for frame.name/file/line/col (the frame), the
\* percentages are (totalWeight / den) * 100 and (selfWeight / den) * 100;
\* node is the node the line was pushed for (not part of the TreeLine).
TreeLine(node, indent, totalWeight) ==
  [node |-> node, indent |-> indent, name |-> nodeFrame[node],
   totalWeight |-> nodeTotal[node], selfWeight |-> nodeSelf[node],
   den |-> totalWeight]

\* buildTreeLines, returning the lines it pushes
RECURSIVE buildTreeLines(_, _, _, _, _, _)
RECURSIVE forEachChild(_, _, _, _, _, _)
buildTreeLines(node, totalWeight, minWeight, prefix, isLast, isRoot) ==
  IF SkipNode(node)
  THEN forEachChild(VisibleChildren(node, minWeight), 1, totalWeight, minWeight, <<>>, TRUE)
  ELSE <<TreeLine(node, prefix \o Connector(isLast, isRoot), totalWeight)>>
       \o forEachChild(VisibleChildren(node, minWeight), 1, totalWeight, minWeight,
                       ChildPrefix(prefix, isLast, isRoot), FALSE)

forEachChild(children, index, totalWeight, minWeight, prefix, isRoot) ==
  IF index > Len(children) THEN <<>>
  ELSE buildTreeLines(children[index], totalWeight, minWeight, prefix,
                      index = Len(children), isRoot)
       \o forEachChild(children, index + 1, totalWeight, minWeight, prefix, isRoot)

\* faulty variant: node.children.sort(...) on the array of the node itself, for
\* every node the walk visits
ChildrenAfterTreeLines_InPlace(node, minWeight) ==
  LET lines == buildTreeLines(node, 0, minWeight, <<>>, TRUE, TRUE)
      visited == {node} \cup {lines[i].node : i \in DOMAIN lines}
  IN [n \in Nodes |-> IF n \in visited THEN SortDesc(nodeChildren[n], nodeTotal)
                       ELSE nodeChildren[n]]

\* [...node.children] is a new array: filter and sort work on it, and the
\* children of every node are after the walk what they were before it.
ChildrenAfterTreeLines(node, minWeight) == nodeChildren

\* ---------------------------------------------------------- bottoms up
\* frameWeights: a Map in insertion order, frame -> {totalWeight, selfWeight}
HasFrame(fw, frame) == \E i \in DOMAIN fw : fw[i].frame = frame

\* faulty variant: a frame met again replaces the weights it has instead of adding
Accumulate_Overwrite(fw, n) ==
  IF HasFrame(fw, nodeFrame[n])
  THEN [i \in DOMAIN fw |->
          IF fw[i].frame = nodeFrame[n]
          THEN [fw[i] EXCEPT !.totalWeight = nodeTotal[n],
                             !.selfWeight = nodeSelf[n]]
          ELSE fw[i]]
  ELSE Append(fw, [frame |-> nodeFrame[n], totalWeight |-> nodeTotal[n],
                   selfWeight |-> nodeSelf[n]])

\* faulty variant: every node gets an entry of its own (a map keyed by node)
Accumulate_PerNode(fw, n) ==
  Append(fw, [frame |-> nodeFrame[n], totalWeight |-> nodeTotal[n],
              selfWeight |-> nodeSelf[n]])

\* existing ? add onto it : frameWeights.set(frame, {...})
Accumulate(fw, n) ==
  IF HasFrame(fw, nodeFrame[n])
  THEN [i \in DOMAIN fw |->
          IF fw[i].frame = nodeFrame[n]
          THEN [fw[i] EXCEPT !.totalWeight = @ + nodeTotal[n],
                             !.selfWeight = @ + nodeSelf[n]]
          ELSE fw[i]]
  ELSE Append(fw, [frame |-> nodeFrame[n], totalWeight |-> nodeTotal[n],
                   selfWeight |-> nodeSelf[n]])

RECURSIVE walkSubtree(_, _)
RECURSIVE walkChildren(_, _, _)
walkSubtree(n, fw) ==
  IF SkipNode(n) THEN walkChildren(nodeChildren[n], 1, fw)
  ELSE walkChildren(nodeChildren[n], 1, Accumulate(fw, n))

walkChildren(children, index, fw) ==
  IF index > Len(children) THEN fw
  ELSE walkChildren(children, index + 1, walkSubtree(children[index], fw))

FrameWeights(node) == walkSubtree(node, <<>>)

\* A BottomsUpEntry: the percentages are (weight / den) * 100
BottomsUpEntry(w, totalWeight) ==
  [frame |-> w.frame, totalWeight |-> w.totalWeight, selfWeight |-> w.selfWeight,
   den |-> totalWeight]

buildBottomsUpEntries(node, totalWeight, minSelfWeight) ==
  LET kept == SelectSeq(FrameWeights(node),
                        LAMBDA w : AtLeast(w.selfWeight, minSelfWeight))
      entries == [i \in DOMAIN kept |-> BottomsUpEntry(kept[i], totalWeight)]
  IN SortDesc(entries, [e \in Range(entries) |-> e.selfWeight])

\* ------------------------------------------------------- report formatter
\* One row of the output.  Every row has the same fields: kind is the
\* literal text of the row (or names its template), indent the tree-art
\* prefix, name the frame or profile shown, v1 and v2 the weights given to
\* formatValue, den the denominator of the percentages, i/n the profile index.
Row(kind, indent, name, v1, v2, den, i, n) ==
  [kind |-> kind, indent |-> indent, name |-> name, v1 |-> v1, v2 |-> v2,
   den |-> den, i |-> i, n |-> n]

Text(kind) == Row(kind, <<>>, 0, 0, 0, 0, 0, 0)

Title == "Performance Summary"
AllTitle == "Performance Profile Summary"
\* ch.repeat(60): the row of RuleWidth times the character ch
Rule(ch) == Row(ch, <<>>, 0, 0, 0, 0, 0, RuleWidth)
BlankRow == ""
BottomsUpTitle == "Bottoms Up (by self time, >=1% of total):"
CallTreeTitle == "Call Tree (callees, >=1% of selection):"
AllCallTreeTitle == "Call Tree (>=1% of total):"
NoData == "No data available"

\* formatTreeLine: the name row and the stats row
\* "[total (pct), self: self (pct)]", both behind the indent.  The blanks
\* that pad the stats row, max(0, name.length - stats.length) of them, are
\* a function of the two formatted strings and belong to the stats row.
formatTreeLine(line) ==
  << Row("line name", line.indent, line.name, 0, 0, 0, 0, 0),
     Row("line stats", line.indent, 0, line.totalWeight, line.selfWeight, line.den, 0, 0) >>

\* a bottoms-up entry: the name row, the stats row
\* "[self: self (pct), total: total (pct)]", and a blank row
formatEntry(entry) ==
  << Row("entry name", <<>>, entry.frame, 0, 0, 0, 0, 0),
     Row("entry stats", <<>>, 0, entry.selfWeight, entry.totalWeight, entry.den, 0, 0),
     Text(BlankRow) >>

BottomsUpSection(entries) ==
  IF Len(entries) > 0
  THEN <<Text(BottomsUpTitle), Rule("-"), Text(BlankRow)>>
       \o Concat([k \in DOMAIN entries |-> formatEntry(entries[k])])
  ELSE <<>>

CallTreeSection(title, lines) ==
  IF Len(lines) > 0
  THEN <<Text(title), Rule("-"), Text(BlankRow)>>
       \o Concat([k \in DOMAIN lines |-> formatTreeLine(lines[k])])
       \o <<Text(BlankRow)>>
  ELSE <<>>

\* "Selected:", "Total:", "Self:" and a blank row, for a start node that is
\* not the root (the frames of the model carry no file: no "Location:" row)
SelectedBlock(node, totalWeight) ==
  IF ~IsRoot(node)
  THEN << Row("Selected", <<>>, nodeFrame[node], 0, 0, 0, 0, 0),
          Row("Total", <<>>, 0, nodeTotal[node], 0, totalWeight, 0, 0),
          Row("Self", <<>>, 0, nodeSelf[node], 0, totalWeight, 0, 0),
          Text(BlankRow) >>
  ELSE <<>>

\* totalWeight * MIN_WEIGHT_THRESHOLD, in hundredths
BottomsUpMinSelfWeight(node, totalWeight) == totalWeight

\* faulty variant: the call tree is cut at 1% of the profile, like the bottoms-up list
CallTreeMinWeight_OfProfile(node, totalWeight) == totalWeight

\* nodeWeight * MIN_WEIGHT_THRESHOLD, in hundredths
CallTreeMinWeight(node, totalWeight) ==
  IF IsRoot(node) THEN totalWeight ELSE nodeTotal[node]

\* faulty variant: one empty list is enough for the sentinel
IsNoData_Either(bottomsUpEntries, callTreeLines) ==
  Len(bottomsUpEntries) = 0 \/ Len(callTreeLines) = 0

\* bottomsUpEntries.length === 0 && callTreeLines.length === 0
IsNoData(bottomsUpEntries, callTreeLines) ==
  Len(bottomsUpEntries) = 0 /\ Len(callTreeLines) = 0

\* what one report section is built from
Section(node, totalWeight, minSelfWeight, minWeight) ==
  [node |-> node, totalWeight |-> totalWeight,
   minSelfWeight |-> minSelfWeight, minWeight |-> minWeight,
   frameWeights |-> FrameWeights(node),
   entries |-> buildBottomsUpEntries(node, totalWeight, minSelfWeight),
   lines |-> buildTreeLines(node, totalWeight, minWeight, <<>>, TRUE, TRUE)]

TreeSummarySection(node, totalWeight) ==
  Section(node, totalWeight, BottomsUpMinSelfWeight(node, totalWeight),
          CallTreeMinWeight(node, totalWeight))

\* the rows of generateTreeSummary, given the two lists it has built
TreeSummaryRows(node, totalWeight, sec) ==
  IF IsNoData(sec.entries, sec.lines)
  THEN <<Text(NoData)>>
  ELSE <<Text(Title), Rule("="), Text(BlankRow)>>
       \o SelectedBlock(node, totalWeight)
       \o BottomsUpSection(sec.entries)
       \o CallTreeSection(CallTreeTitle, sec.lines)
       \o <<Rule("-"),
            Row("Total weight of profile", <<>>, 0, totalWeight, 0, 0, 0, 0)>>

generateTreeSummary(node, totalWeight) ==
  TreeSummaryRows(node, totalWeight, TreeSummarySection(node, totalWeight))

\* ------------------------------------------------------------- profiles
\* A Profile is known by its grouped call-tree root.
GroupedCalltreeRoot(profile) == profile

TotalNonIdleWeight(profile) ==
  SeqSum([k \in DOMAIN nodeChildren[profile] |-> nodeTotal[nodeChildren[profile][k]]])

\* faulty variant: the sub-header is written for a single profile too
ProfileHeader_Always(i, n, name, totalWeight) ==
  << Rule("="),
     Row("Profile i/n: name", <<>>, name, 0, 0, 0, i, n),
     Row("Profile total", <<>>, 0, totalWeight, 0, 0, 0, 0),
     Rule("="),
     Text(BlankRow) >>

\* the sub-header of profile i of n (only when n > 1)
ProfileHeader(i, n, name, totalWeight) ==
  IF n > 1
  THEN << Rule("="),
          Row("Profile i/n: name", <<>>, name, 0, 0, 0, i, n),
          Row("Profile total", <<>>, 0, totalWeight, 0, 0, 0, 0),
          Rule("="),
          Text(BlankRow) >>
  ELSE <<>>

\* profiles[i] of the loop: its root and its own total weight
ProfileSection(profiles, i) ==
  LET root == GroupedCalltreeRoot(profiles[i].profile)
      totalWeight == TotalNonIdleWeight(profiles[i].profile)
  IN Section(root, totalWeight, totalWeight, totalWeight)

\* the rows of one turn of the loop, given the two lists it has built
ProfileRows(profiles, i, sec) ==
  ProfileHeader(i, Len(profiles), profiles[i].name, sec.totalWeight)
  \o BottomsUpSection(sec.entries)
  \o CallTreeSection(AllCallTreeTitle, sec.lines)

AllProfilesRows(profiles, secs) ==
  << Text(AllTitle), Rule("="), Text(BlankRow),
     Row("Total profiles", <<>>, 0, 0, 0, 0, 0, Len(profiles)),
     Text(BlankRow) >>
  \o Concat([i \in DOMAIN profiles |-> ProfileRows(profiles, i, secs[i])])

generateAllProfilesSummary(profiles) ==
  AllProfilesRows(profiles, [i \in DOMAIN profiles |-> ProfileSection(profiles, i)])

\* ------------------------------------------------------- initial states
\* The forests over Nodes, one tree per profile.  parent[n] is NoNode for
\* the root of a profile; the nodes are numbered in the order a depth-first
\* walk in insertion order meets them, so the parent of n is n - 1 or one
\* of its ancestors.
RECURSIVE AncestorsIn(_, _)
AncestorsIn(p, n) ==
  IF n = NoNode THEN {NoNode} ELSE {n} \cup AncestorsIn(p, p[n])

Forests ==
  {p \in [Nodes -> {NoNode} \cup Nodes] :
     /\ \A n \in Nodes : p[n] < n /\ p[n] \in AncestorsIn(p, n - 1)
     /\ Cardinality({n \in Nodes : p[n] = NoNode}) <= MaxProfiles}

RECURSIVE Ascending(_)
Ascending(S) ==
  IF S = {} THEN <<>>
  ELSE LET m == CHOOSE x \in S : \A y \in S : x <= y
       IN <<m>> \o Ascending(S \ {m})

ChildrenFrom(p) == [n \in Nodes |-> Ascending({c \in Nodes : p[c] = n})]

\* One canonical Frame per function: roots carry Frame.root, and the frames
\* of the other nodes are numbered in the order they first occur.
FramesFor(p) ==
  {f \in [Nodes -> {RootFrame} \cup Frames] :
     \A n \in Nodes :
       /\ (f[n] = RootFrame) <=> (p[n] = NoNode)
       /\ f[n] # RootFrame =>
            \A g \in 1..(f[n] - 1) : \E m \in 1..(n - 1) : f[m] = g}

SelfWeightsFor(p) ==
  {s \in [Nodes -> SelfWeights] : \A n \in Nodes : p[n] = NoNode => s[n] = 0}

\* addToTotalWeight/addToSelfWeight: the weight of a sample goes to the self
\* weight of the last node of its stack and to the total weight of every
\* node of the stack
RECURSIVE SubtreeWeight(_, _, _)
SubtreeWeight(p, s, n) ==
  s[n] + SetSum({c \in Nodes : p[c] = n},
                [c \in Nodes |-> IF p[c] = n THEN SubtreeWeight(p, s, c) ELSE 0])

\* The total weight of a root is the sum over its children, or is never
\* added to and stays zero: nothing in tree-summary.ts reads it.
TotalsFor(p, s) ==
  {[n \in Nodes |-> IF p[n] = NoNode /\ ~rootCounted THEN 0
                    ELSE SubtreeWeight(p, s, n)] : rootCounted \in BOOLEAN}

Roots == {n \in Nodes : IsRoot(n)}

\* the root a node hangs under, following CallTreeNode.parent
RECURSIVE RootOf(_)
RootOf(n) == IF nodeParent[n] = NoNode THEN n ELSE RootOf(nodeParent[n])

\* options.totalWeight: the total weight of the node's profile, or zero
TotalWeightInputs(node) == {0, TotalNonIdleWeight(RootOf(node))}

\* ProfileInfo[]: distinct profiles in any order, each under its own name
RECURSIVE InjectiveSeqs(_, _)
InjectiveSeqs(S, len) ==
  IF len = 0 THEN {<<>>}
  ELSE {<<>>} \cup UNION {{<<x>> \o t : t \in InjectiveSeqs(S \ {x}, len - 1)} : x \in S}

ProfileLists ==
  {[i \in DOMAIN q |-> [name |-> q[i], profile |-> q[i]]] :
     q \in InjectiveSeqs(Roots, MaxProfiles)}

\* the calls of the exported functions
Requests ==
  UNION {{[fn |-> "generateTreeSummary", node |-> node,
            totalWeight |-> totalWeight, profiles |-> <<>>] :
             totalWeight \in TotalWeightInputs(node)} : node \in Nodes}
  \cup {[fn |-> "generateAllProfilesSummary", node |-> NoNode, totalWeight |-> 0,
         profiles |-> profiles] : profiles \in ProfileLists}

Init ==
  \E p \in Forests :
    /\ nodeParent = p
    /\ nodeChildren = ChildrenFrom(p)
    /\ nodeFrame \in FramesFor(p)
    /\ nodeSelf \in SelfWeightsFor(p)
    /\ nodeTotal \in TotalsFor(p, nodeSelf)
    /\ request \in Requests
    /\ calls = 0
    /\ output = <<>>
    /\ prevOutput = <<>>
    /\ sections = <<>>

\* ------------------------------------------------------------- actions
Called(out, secs) ==
  /\ calls' = IF calls = 0 THEN 1 ELSE 2
  /\ prevOutput' = output
  /\ output' = out
  /\ sections' = secs
  /\ UNCHANGED request

GenerateTreeSummary ==
  /\ request.fn = "generateTreeSummary"
  /\ LET sec == TreeSummarySection(request.node, request.totalWeight)
     IN Called(TreeSummaryRows(request.node, request.totalWeight, sec), <<sec>>)
  /\ nodeChildren' =
       ChildrenAfterTreeLines(
         request.node, CallTreeMinWeight(request.node, request.totalWeight))
  /\ UNCHANGED <<nodeFrame, nodeParent, nodeTotal, nodeSelf>>

GenerateAllProfilesSummary ==
  /\ request.fn = "generateAllProfilesSummary"
  /\ LET secs == [i \in DOMAIN request.profiles |->
                    ProfileSection(request.profiles, i)]
     IN Called(AllProfilesRows(request.profiles, secs), secs)
  /\ nodeChildren' =
       [n \in Nodes |->
          IF \E i \in DOMAIN request.profiles :
               RootOf(n) = GroupedCalltreeRoot(request.profiles[i].profile)
          THEN ChildrenAfterTreeLines(
                 RootOf(n), TotalNonIdleWeight(RootOf(n)))[n]
          ELSE nodeChildren[n]]
  /\ UNCHANGED <<nodeFrame, nodeParent, nodeTotal, nodeSelf>>

Next == GenerateTreeSummary \/ GenerateAllProfilesSummary

Spec == Init /\ [][Next]_vars

\* ------------------------------------------------- the tree, read as sets
RECURSIVE AncestorsOrSelf(_)
AncestorsOrSelf(n) ==
  IF n = NoNode THEN {} ELSE {n} \cup AncestorsOrSelf(nodeParent[n])

\* the subtree of start: start and all its descendants
SubtreeNodes(start) == {n \in Nodes : start \in AncestorsOrSelf(n)}

\* the nodes on the way from start down to n, start left out, n included
PathBelow(start, n) == (AncestorsOrSelf(n) \cap SubtreeNodes(start)) \ {start}

LineNodes(lines) == {lines[i].node : i \in DOMAIN lines}

EntryFrames(entries) == {entries[i].frame : i \in DOMAIN entries}

LastCall(fn) == calls > 0 /\ request.fn = fn

\* ------------------------------------------------------------------ C1
\* C1: whatever the tree, the start node and the thresholds, no line of
\* buildTreeLines and no entry of buildBottomsUpEntries stands for a node
\* whose isRoot() is true: the synthetic root is skipped, its children are
\* processed.
C1_RootNeverShown ==
  \A k \in DOMAIN sections :
    LET sec == sections[k] IN
    /\ \A i \in DOMAIN sec.lines :
         ~IsRoot(sec.lines[i].node) /\ sec.lines[i].name # RootFrame
    /\ \A i \in DOMAIN sec.entries : sec.entries[i].frame # RootFrame
    /\ \A i \in DOMAIN sec.frameWeights : sec.frameWeights[i].frame # RootFrame
    /\ IsRoot(sec.node) =>
         \A c \in Range(nodeChildren[sec.node]) :
           /\ HasFrame(sec.frameWeights, nodeFrame[c])
           /\ AtLeast(nodeTotal[c], sec.minWeight) => c \in LineNodes(sec.lines)

\* a report from the synthetic root whose children are shown
C1_Witness ==
  /\ LastCall("generateTreeSummary")
  /\ IsRoot(request.node)
  /\ Len(nodeChildren[request.node]) >= 2
  /\ Len(sections[1].lines) >= 2
  /\ Len(sections[1].entries) >= 1

\* ------------------------------------------------------------------ C2
\* every node of the tree of start has total = self + the totals of its
\* children, and the synthetic root has self weight 0
WeightsAddUp(start) ==
  \A n \in SubtreeNodes(RootOf(start)) :
    /\ nodeTotal[n] =
         nodeSelf[n] + SetSum(Range(nodeChildren[n]), nodeTotal)
    /\ IsRoot(n) => nodeSelf[n] = 0

\* C2: in a tree whose weights add up, the self weights accumulated in the
\* frameWeights map of buildBottomsUpEntries (before the minSelfWeight
\* filter) sum to the total weight of the start node.
C2_SelfWeightsSumToTotal ==
  \A k \in DOMAIN sections :
    LET sec == sections[k] IN
    WeightsAddUp(sec.node) =>
      SeqSum([i \in DOMAIN sec.frameWeights |-> sec.frameWeights[i].selfWeight])
        = nodeTotal[sec.node]

\* a consistent tree, a start node with descendants, a frame that recurs,
\* and entries dropped by the filter
C2_Witness ==
  /\ LastCall("generateTreeSummary")
  /\ WeightsAddUp(request.node)
  /\ ~IsRoot(request.node)
  /\ nodeTotal[request.node] > nodeSelf[request.node]
  /\ nodeSelf[request.node] > 0
  /\ \E n \in SubtreeNodes(request.node) \ {request.node} :
        nodeFrame[n] = nodeFrame[request.node] /\ nodeSelf[n] > 0
  /\ Len(sections[1].entries) < Len(sections[1].frameWeights)

\* ------------------------------------------------------------------ C3
\* the non-root nodes of the subtree of start whose frame is f
NodesOfFrame(start, f) ==
  {n \in SubtreeNodes(start) : ~IsRoot(n) /\ nodeFrame[n] = f}

\* C3: buildBottomsUpEntries has at most one entry per Frame, and the self
\* and total weight of the entry are the sums of getSelfWeight() and
\* getTotalWeight() over every non-root node of the subtree with that frame,
\* at any depth and whatever the threshold.
C3_OneEntryPerFrame ==
  \A k \in DOMAIN sections :
    LET sec == sections[k]
        fw == sec.frameWeights
        en == sec.entries
    IN
    /\ \A i, j \in DOMAIN fw : fw[i].frame = fw[j].frame => i = j
    /\ \A i, j \in DOMAIN en : en[i].frame = en[j].frame => i = j
    /\ \A f \in Frames : NodesOfFrame(sec.node, f) # {} <=> HasFrame(fw, f)
    /\ \A i \in DOMAIN fw :
         /\ fw[i].selfWeight = SetSum(NodesOfFrame(sec.node, fw[i].frame), nodeSelf)
         /\ fw[i].totalWeight = SetSum(NodesOfFrame(sec.node, fw[i].frame), nodeTotal)
    /\ \A i \in DOMAIN en :
         /\ en[i].selfWeight = SetSum(NodesOfFrame(sec.node, en[i].frame), nodeSelf)
         /\ en[i].totalWeight = SetSum(NodesOfFrame(sec.node, en[i].frame), nodeTotal)

\* one frame at two depths with self weights a = 1 and b = 100, and its
\* entry with self weight a + b
C3_Witness ==
  /\ LastCall("generateTreeSummary")
  /\ \E n, m \in SubtreeNodes(request.node) :
       /\ nodeParent[m] = n
       /\ nodeFrame[n] = nodeFrame[m]
       /\ ~IsRoot(n)
       /\ nodeSelf[n] = 1
       /\ nodeSelf[m] = ThresholdScale
       /\ NodesOfFrame(request.node, nodeFrame[n]) = {n, m}
       /\ \E i \in DOMAIN sections[1].entries :
            /\ sections[1].entries[i].frame = nodeFrame[n]
            /\ sections[1].entries[i].selfWeight = 1 + ThresholdScale

\* ------------------------------------------------------------------ C4
\* thresholds (in hundredths) at and just above every weight of the tree
ProbeThresholds ==
  {0} \cup {nodeTotal[n] * ThresholdScale + d : n \in Nodes, d \in {0, 1}}

LinesAt(sec, minWeight) ==
  buildTreeLines(sec.node, sec.totalWeight, minWeight, <<>>, TRUE, TRUE)

\* C4: for a fixed tree, start node and total weight and thresholds
\* t1 <= t2, buildTreeLines makes no more lines at t2 than at t1, and the
\* nodes shown at t2 are among the nodes shown at t1.
C4_FilterMonotonic ==
  \A k \in DOMAIN sections :
    LET sec == sections[k] IN
    \A t \in ProbeThresholds :
      LET other == LinesAt(sec, t) IN
      /\ sec.minWeight <= t =>
           /\ Len(other) <= Len(sec.lines)
           /\ LineNodes(other) \subseteq LineNodes(sec.lines)
      /\ t <= sec.minWeight =>
           /\ Len(sec.lines) <= Len(other)
           /\ LineNodes(sec.lines) \subseteq LineNodes(other)

\* a report with lines below the start node, and a higher threshold that
\* removes some of them but not all
C4_Witness ==
  /\ LastCall("generateTreeSummary")
  /\ Len(sections[1].lines) >= 3
  /\ \E t \in ProbeThresholds :
       /\ t > sections[1].minWeight
       /\ Len(LinesAt(sections[1], t)) < Len(sections[1].lines)
       /\ Len(LinesAt(sections[1], t)) >= 2
  /\ \E t \in ProbeThresholds :
       /\ t < sections[1].minWeight
       /\ Len(LinesAt(sections[1], t)) > Len(sections[1].lines)

\* ------------------------------------------------------------------ C5
\* C5: generateTreeSummary returns exactly "No data available" (no header,
\* no rule, no total-weight footer) if and only if the bottoms-up entries
\* and the call-tree lines are both empty; so it does for a synthetic root
\* without children and total weight 0.
C5_NoDataIffBothEmpty ==
  LastCall("generateTreeSummary") =>
    LET sec == sections[1] IN
    /\ output = <<Text(NoData)>> <=> (sec.entries = <<>> /\ sec.lines = <<>>)
    /\ output # <<Text(NoData)>> =>
         /\ output[1] = Text(Title)
         /\ output[Len(output)].kind = "Total weight of profile"
         /\ \A i \in DOMAIN output : output[i].kind # NoData
    /\ ( /\ IsRoot(request.node)
         /\ nodeChildren[request.node] = <<>>
         /\ request.totalWeight = 0 ) => output = <<Text(NoData)>>

\* the empty profile: a root without children, total weight 0
C5_Witness ==
  /\ LastCall("generateTreeSummary")
  /\ IsRoot(request.node)
  /\ nodeChildren[request.node] = <<>>
  /\ request.totalWeight = 0
  /\ output = <<Text(NoData)>>

\* ------------------------------------------------------------------ C6
AccumulatedSelf(start, f) == SetSum(NodesOfFrame(start, f), nodeSelf)

\* the frames of the subtree whose accumulated self weight is >= 1% of den
FramesAtLeast(start, den) ==
  {f \in Frames : /\ NodesOfFrame(start, f) # {}
                  /\ AccumulatedSelf(start, f) * ThresholdScale >= den}

\* the nodes below start that are, with every node between start and
\* them, >= 1% of den in total weight
ShownBelow(start, den) ==
  {n \in SubtreeNodes(start) \ {start} :
     \A a \in PathBelow(start, n) : nodeTotal[a] * ThresholdScale >= den}

SubHeaders == {p \in DOMAIN output : output[p].kind = "Profile i/n: name"}

\* the position of the k-th sub-header
SubHeaderAt(k) ==
  CHOOSE p \in SubHeaders : Cardinality({q \in SubHeaders : q < p}) = k - 1

\* the rows of profile k: from its sub-header to the row before the rule
\* that opens the next one (everything after the top header when there are
\* no sub-headers)
RowsOfProfile(k) ==
  LET N == Len(request.profiles) IN
  IF N > 1
  THEN SubSeq(output, SubHeaderAt(k),
              IF k < N THEN SubHeaderAt(k + 1) - 2 ELSE Len(output))
  ELSE SubSeq(output, 6, Len(output))

RowsOfKind(rows, kinds) == SelectSeq(rows, LAMBDA r : r.kind \in kinds)

\* C7: generateAllProfilesSummary over N profiles writes exactly N
\* sub-headers "Profile i/N: name" when N > 1 and none when N <= 1; the
\* sub-headers and the sections of each profile come in the order of the
\* list, indexed 1..N, the sections of a profile between its sub-header and
\* the next, and they are computed from the profile's own grouped root and
\* own total weight.
C7_ProfilesInOrder ==
  LastCall("generateAllProfilesSummary") =>
    LET N == Len(request.profiles) IN
    /\ Cardinality(SubHeaders) = IF N > 1 THEN N ELSE 0
    /\ Len(sections) = N
    /\ output[4].n = N
    /\ N = 0 => Len(output) = 5
    /\ \A k \in 1..N :
         LET rows == RowsOfProfile(k)
             sec == sections[k]
             root == GroupedCalltreeRoot(request.profiles[k].profile)
             own == TotalNonIdleWeight(request.profiles[k].profile)
             names == RowsOfKind(rows, {"entry name"})
             lines == RowsOfKind(rows, {"line name"})
             stats == RowsOfKind(rows, {"entry stats", "line stats"})
             titles == RowsOfKind(rows, {BottomsUpTitle, AllCallTreeTitle})
         IN
         /\ N > 1 =>
              /\ rows[1].i = k /\ rows[1].n = N
              /\ rows[1].name = request.profiles[k].name
              /\ rows[2] = Row("Profile total", <<>>, 0, own, 0, 0, 0, 0)
              /\ output[SubHeaderAt(k) - 1] = Rule("=")
         /\ sec.node = root /\ sec.totalWeight = own
         /\ LineNodes(sec.lines) \subseteq SubtreeNodes(root)
         /\ Len(names) = Len(sec.entries)
         /\ \A e \in DOMAIN names : names[e].name = sec.entries[e].frame
         /\ Len(lines) = Len(sec.lines)
         /\ \A l \in DOMAIN lines :
              /\ lines[l].name = sec.lines[l].name
              /\ lines[l].indent = sec.lines[l].indent
         /\ \A t \in DOMAIN stats : stats[t].den = own
         /\ titles \in { <<>>, <<Text(BottomsUpTitle)>>, <<Text(AllCallTreeTitle)>>,
                         <<Text(BottomsUpTitle), Text(AllCallTreeTitle)>> }
         /\ (sec.entries # <<>>) <=> (Text(BottomsUpTitle) \in Range(titles))
         /\ (sec.lines # <<>>) <=> (Text(AllCallTreeTitle) \in Range(titles))

\* two profiles, listed against the order of their roots, each with entries
\* and lines of its own
C7_Witness ==
  /\ LastCall("generateAllProfilesSummary")
  /\ Len(request.profiles) = 2
  /\ request.profiles[1].profile > request.profiles[2].profile
  /\ \A k \in 1..2 : sections[k].entries # <<>> /\ sections[k].lines # <<>>
  /\ TotalNonIdleWeight(request.profiles[1].profile)
       # TotalNonIdleWeight(request.profiles[2].profile)

LineOf(lines, n) == CHOOSE i \in DOMAIN lines : lines[i].node = n

\* C9: the lines of buildTreeLines are a depth-first pre-order walk of the
\* filtered subtree: the line of a node comes before the lines of its shown
\* descendants, the lines of a subtree are contiguous, a child is shown
\* only if its total weight >= minWeight and its parent is shown (or is the
\* start node), and the shown children of one parent come in non-increasing
\* order of total weight.
C9_PreOrderOfFilteredTree ==
  \A k \in DOMAIN sections :
    LET sec == sections[k]
        lines == sec.lines
        start == sec.node
    IN
    /\ \A i, j \in DOMAIN lines : lines[i].node = lines[j].node => i = j
    /\ LineNodes(lines) \ {start} = ShownBelow(start, sec.minWeight)
    /\ \A i \in DOMAIN lines :
         LET n == lines[i].node
             below == {j \in DOMAIN lines : lines[j].node \in SubtreeNodes(n)}
         IN
         /\ n \in SubtreeNodes(start)
         /\ n = start => i = 1
         /\ n # start =>
              /\ nodeTotal[n] * ThresholdScale >= sec.minWeight
              /\ \/ nodeParent[n] = start
                 \/ /\ nodeParent[n] \in LineNodes(lines)
                    /\ LineOf(lines, nodeParent[n]) < i
         /\ below = i..(i + Cardinality(below) - 1)
    /\ \A i, j \in DOMAIN lines :
         (i < j /\ nodeParent[lines[i].node] = nodeParent[lines[j].node])
           => nodeTotal[lines[i].node] >= nodeTotal[lines[j].node]

\* two shown siblings that the sort has swapped, the heavier with a shown
\* child between them, and a node cut by the threshold
C9_Witness ==
  /\ calls > 0
  /\ \E k \in DOMAIN sections :
       LET lines == sections[k].lines IN
       /\ \E i \in DOMAIN lines :
            /\ i + 2 \in DOMAIN lines
            /\ nodeParent[lines[i].node] = nodeParent[lines[i + 2].node]
            /\ nodeParent[lines[i + 1].node] = lines[i].node
            /\ lines[i].node > lines[i + 2].node
            /\ nodeTotal[lines[i].node] > nodeTotal[lines[i + 2].node]
       /\ SubtreeNodes(sections[k].node) \ (LineNodes(lines) \cup Roots) # {}

\* ----------------------------------------------------------------- C10
\* a top-level line: the start node itself, or a child of the synthetic root
TopLevel(start, n) == n = start \/ IsRoot(nodeParent[n])

\* n is the last of the shown children of its parent
LastShown(lines, n) ==
  \A j \in DOMAIN lines :
    nodeParent[lines[j].node] = nodeParent[n] => j <= LineOf(lines, n)

ConnectorOf(lines, n) == IF LastShown(lines, n) THEN Corner ELSE Tee

ExtensionOf(lines, n) == IF LastShown(lines, n) THEN Blank ELSE Bar

Front(s) == SubSeq(s, 1, Len(s) - 1)

\* C10 as claimed: every line's indent is the child-prefix handed down by
\* its parent followed by the corner glyph (last filtered child) or the tee
\* glyph (otherwise), the child-prefix a node hands down is its own prefix
\* extended with the bar (non-last) or three blanks (last), and the
\* children of the synthetic root start from the empty prefix.
C10_EveryLineHasConnector ==
  \A k \in DOMAIN sections :
    LET lines == sections[k].lines
        start == sections[k].node
    IN
    \A i \in DOMAIN lines :
      LET n == lines[i].node
          indent == lines[i].indent
          handedDown ==
            IF TopLevel(start, n) THEN <<>>
            ELSE LET up == lines[LineOf(lines, nodeParent[n])].indent
                 IN Front(up) \o <<ExtensionOf(lines, nodeParent[n])>>
      IN indent = handedDown \o <<ConnectorOf(lines, n)>>

\* the child-prefix the node n hands to its children, as the code has it
HandedDownBy(lines, start, n) ==
  IF TopLevel(start, n) THEN <<>>
  ELSE Front(lines[LineOf(lines, n)].indent) \o <<ExtensionOf(lines, n)>>

\* C10, amended: a top-level line (the start node, or a child of the
\* synthetic root) has an empty indent, without connector, and hands the
\* empty prefix to its children; every other line's indent is the
\* child-prefix handed down by its parent followed by the corner glyph
\* (last filtered child) or the tee glyph (otherwise), and the child-prefix
\* it hands down is its own prefix extended with the bar (non-last) or
\* three blanks (last).
C10_IndentBelowTopLevel ==
  \A k \in DOMAIN sections :
    LET lines == sections[k].lines
        start == sections[k].node
    IN
    \A i \in DOMAIN lines :
      LET n == lines[i].node IN
      IF TopLevel(start, n)
      THEN lines[i].indent = <<>>
      ELSE lines[i].indent =
             HandedDownBy(lines, start, nodeParent[n]) \o <<ConnectorOf(lines, n)>>

\* under a top-level line, a child that is not the last with a child of
\* its own (behind the bar), then the last child
C10_Witness ==
  /\ calls > 0
  /\ \E k \in DOMAIN sections :
       LET lines == sections[k].lines IN
       /\ Len(lines) >= 4
       /\ \E i \in DOMAIN lines :
            /\ i + 2 \in DOMAIN lines
            /\ lines[i].indent = <<Tee>>
            /\ lines[i + 1].indent = <<Bar, Corner>>
            /\ lines[i + 2].indent = <<Corner>>

====
